---- MODULE Spec2Model ----
(***************************************************************************)
(* Model of os5/src/task/processor.rs: the single-core Processor, the      *)
(* dispatch loop run_tasks, the yield primitive schedule and the           *)
(* current-task accessors.                                                 *)
(*                                                                         *)
(* One flow of control owns the CPU at a time: the idle flow (run_tasks)   *)
(* or the kernel code running on behalf of one task.  Control changes      *)
(* hands only at the two __switch calls.  run_tasks and schedule are       *)
(* modelled statement by statement (pc, spc) so that the guard discipline  *)
(* around the switch is visible; the accessors run to completion.  A task  *)
(* handle (Arc<TaskControlBlock>) is the task's number; the places a       *)
(* handle can be are the ready queue, run_tasks' locals, Processor.current *)
(* and the caller that took it out of the slot.  What lies outside the     *)
(* file (the ready queue, what a caller does with a handle it took, the    *)
(* timer, the address space) is the environment: Ext_requeue, Ext_exit,    *)
(* Tick and the status code of mmap/munmap.                                *)
(***************************************************************************)
EXTENDS Integers, Sequences, FiniteSets, TLC

\* ---------------------------------------------------------------- bounds
NumTasks == 2
\* width of the per-task counter vector (config::MAX_SYSCALL_NUM, scaled)
MAX_SYSCALL_NUM == 2
\* how many add_one_to_current_task calls are followed
MaxAdds == 1
\* how far the clock advances
MaxTicks == 1

Tasks == 1..NumTasks
\* Option::None in a slot that holds a task handle
NoTask == 0
\* the flow that owns the CPU when no task does: the idle flow of run_tasks
IdleFlow == NoTask
\* A u32 is kept at its full width as two 16-bit limbs (hi * 2^16 + lo).
LIMB == 65536
U32(h, l) == [hi |-> h, lo |-> l]
U32_ZERO == U32(0, 0)
U32_MAX == U32(LIMB - 1, LIMB - 1)
SyscallIds == 0..(MAX_SYSCALL_NUM - 1)
\* one id past the vector: the precondition violation of add_one_to_current_task
CallIds == 0..MAX_SYSCALL_NUM
\* the clock when the dispatch loop starts: the tasks were created before it,
\* one per millisecond
BootTime == NumTasks - 1

VARIABLES
    current,        \* Processor.current: a task handle or NoTask
    idle_task_cx,   \* Processor.idle_task_cx: where the idle flow resumes
    proc_borrowed,  \* PROCESSOR's UPSafeCell is exclusively borrowed
    inner_borrowed, \* per task: its inner UPSafeCell is exclusively borrowed
    task_status,    \* per task: TaskStatus
    syscall_times,  \* per task: [u32; MAX_SYSCALL_NUM]
    first_time,     \* per task: timestamp set at creation
    ready_queue,    \* the task manager's queue of handles (fetch_task pops it)
    held,           \* handles moved out to a caller by take_current_task
    discarded,      \* tasks whose last handle this core dropped
    now,            \* get_time_ms()
    adds,           \* add_one_to_current_task calls made so far
    cpu,            \* IdleFlow or the task whose flow owns the CPU
    pc,             \* run_tasks: the line the idle flow is at
    task,           \* run_tasks local: the handle fetched (moved out at line 65)
    k,              \* run_tasks local: the clone taken at line 60
    spc,            \* schedule: the line the yielding flow is at, or "none"
    aborted,        \* "no", or the panic that stopped the kernel
    last            \* the last public call and what it returned

vars == <<current, idle_task_cx, proc_borrowed, inner_borrowed, task_status,
          syscall_times, first_time, ready_queue, held, discarded, now, adds,
          cpu, pc, task, k, spc, aborted, last>>

procVars == <<current, idle_task_cx, proc_borrowed>>
tcbVars == <<inner_borrowed, task_status, syscall_times, first_time>>
extVars == <<ready_queue, held, now, adds>>
idleVars == <<pc, task, k>>

NoCall == [op |-> "none", arg |-> <<>>, ok |-> TRUE, ret |-> <<>>]
Call(o, a, r) == [op |-> o, arg |-> a, ok |-> TRUE, ret |-> r]
Panic(o, a) == [op |-> o, arg |-> a, ok |-> FALSE, ret |-> <<>>]

\* ------------------------------------------------------------- Processor
\* Processor::new
Processor_new == [current |-> NoTask, idle_task_cx |-> "zero"]

\* take_current that clones the handle and leaves it in the slot
take_current_cloning(c) == [ret |-> c, current |-> c]

\* Processor::take_current: Option::take
take_current(c) == [ret |-> c, current |-> NoTask]

\* Processor::current that moves the handle out of the slot
Processor_current_taking(c) == [ret |-> c, current |-> NoTask]

\* Processor::current: a clone of the handle, the slot untouched
Processor_current(c) == [ret |-> c, current |-> c]

\* The tasks when run_tasks is entered, as their creator left them: Ready,
\* queued in order of creation, stamped with the clock at creation, no guard
\* held.  Task 1 has made u32::MAX calls of syscall 0 in an earlier life.
InitTasks ==
    /\ inner_borrowed = [t \in Tasks |-> FALSE]
    /\ task_status = [t \in Tasks |-> "Ready"]
    /\ syscall_times = [t \in Tasks |-> [i \in SyscallIds |->
                           IF t = 1 /\ i = 0 THEN U32_MAX ELSE U32_ZERO]]
    /\ first_time = [t \in Tasks |-> t - 1]
    /\ ready_queue = [i \in 1..NumTasks |-> i]
    /\ held = {}
    /\ discarded = {}
    /\ now = BootTime
    /\ adds = 0

\* PROCESSOR as lazy_static builds it, and the idle flow about to enter the
\* loop of run_tasks
Init ==
    /\ current = Processor_new.current
    /\ idle_task_cx = Processor_new.idle_task_cx
    /\ proc_borrowed = FALSE
    /\ InitTasks
    /\ cpu = IdleFlow
    /\ pc = "L55"
    /\ task = NoTask
    /\ k = NoTask
    /\ spc = "none"
    /\ aborted = "no"
    /\ last = NoCall

\* ------------------------------------------------------------- run_tasks
IdleAt(l) == aborted = "no" /\ cpu = IdleFlow /\ pc = l

\* line 55: PROCESSOR.exclusive_access()
RunTasks_acquire ==
    /\ IdleAt("L55")
    /\ IF proc_borrowed
       THEN /\ aborted' = "PROCESSOR already borrowed"
            /\ UNCHANGED <<proc_borrowed, pc>>
       ELSE /\ proc_borrowed' = TRUE
            /\ pc' = "L56"
            /\ UNCHANGED aborted
    /\ last' = NoCall
    /\ UNCHANGED <<current, idle_task_cx, tcbVars, extVars, discarded, cpu,
                   task, k, spc>>

\* line 56: fetch_task() returns Some(task)
RunTasks_fetch_some ==
    /\ IdleAt("L56")
    /\ ready_queue # <<>>
    /\ task' = Head(ready_queue)
    /\ ready_queue' = Tail(ready_queue)
    /\ pc' = "L59"
    /\ UNCHANGED <<procVars, tcbVars, held, now, adds, discarded, cpu, k, spc,
                   aborted, last>>

\* line 56: fetch_task() returns None; the body is skipped
RunTasks_fetch_none ==
    /\ IdleAt("L56")
    /\ ready_queue = <<>>
    /\ pc' = "L74"
    /\ UNCHANGED <<procVars, tcbVars, extVars, discarded, cpu, task, k, spc,
                   aborted, last>>

\* RunTasks_none_release with the guard kept into the next iteration
RunTasks_none_release_skipped ==
    /\ IdleAt("L74")
    /\ pc' = "L55"
    /\ UNCHANGED <<procVars, tcbVars, extVars, discarded, cpu, task, k, spc,
                   aborted, last>>

\* line 74: end of the iteration that fetched nothing; processor is dropped
RunTasks_none_release ==
    /\ IdleAt("L74")
    /\ proc_borrowed' = FALSE
    /\ pc' = "L55"
    /\ UNCHANGED <<current, idle_task_cx, tcbVars, extVars, discarded, cpu,
                   task, k, spc, aborted, last>>

\* lines 57-61: task.inner_exclusive_access(); k = task.clone()
RunTasks_lock ==
    /\ IdleAt("L59")
    /\ IF inner_borrowed[task]
       THEN /\ aborted' = "inner already borrowed"
            /\ UNCHANGED <<inner_borrowed, k, pc>>
       ELSE /\ inner_borrowed' = [inner_borrowed EXCEPT ![task] = TRUE]
            /\ k' = task
            /\ pc' = "L62"
            /\ UNCHANGED aborted
    /\ UNCHANGED <<procVars, task_status, syscall_times, first_time, extVars,
                   discarded, cpu, task, spc, last>>

\* RunTasks_set_running with the assignment of line 62 left out
RunTasks_set_running_skipped ==
    /\ IdleAt("L62")
    /\ pc' = "L63"
    /\ UNCHANGED <<procVars, tcbVars, extVars, discarded, cpu, task, k, spc,
                   aborted, last>>

\* line 62: task_inner.task_status = TaskStatus::Running
RunTasks_set_running ==
    /\ IdleAt("L62")
    /\ task_status' = [task_status EXCEPT ![task] = "Running"]
    /\ pc' = "L63"
    /\ UNCHANGED <<procVars, inner_borrowed, syscall_times, first_time,
                   extVars, discarded, cpu, task, k, spc, aborted, last>>

\* RunTasks_unlock with drop(task_inner) left out: the task's guard lives to
\* the end of the iteration
RunTasks_unlock_skipped ==
    /\ IdleAt("L63")
    /\ pc' = "L65"
    /\ UNCHANGED <<procVars, tcbVars, extVars, discarded, cpu, task, k, spc,
                   aborted, last>>

\* line 63: drop(task_inner)
RunTasks_unlock ==
    /\ IdleAt("L63")
    /\ inner_borrowed' = [inner_borrowed EXCEPT ![task] = FALSE]
    /\ pc' = "L65"
    /\ UNCHANGED <<procVars, task_status, syscall_times, first_time, extVars,
                   discarded, cpu, task, k, spc, aborted, last>>

\* RunTasks_store with the fetched handle dropped instead of stored
RunTasks_store_skipped ==
    /\ IdleAt("L65")
    /\ task' = NoTask
    /\ pc' = "L67"
    /\ UNCHANGED <<procVars, tcbVars, extVars, discarded, cpu, k, spc, aborted,
                   last>>

\* line 65: processor.current = Some(task); the handle that was in the slot
\* is dropped by the assignment
RunTasks_store ==
    /\ IdleAt("L65")
    /\ current' = task
    /\ discarded' = IF current # NoTask /\ current # task
                    THEN discarded \cup {current} ELSE discarded
    /\ task' = NoTask
    /\ pc' = "L67"
    /\ UNCHANGED <<idle_task_cx, proc_borrowed, tcbVars, extVars, cpu, k, spc,
                   aborted, last>>

\* RunTasks_release with drop(processor) left out: the guard lives to the
\* end of the iteration, across the switch
RunTasks_release_skipped ==
    /\ IdleAt("L67")
    /\ pc' = "L70"
    /\ UNCHANGED <<procVars, tcbVars, extVars, discarded, cpu, task, k, spc,
                   aborted, last>>

\* line 67: drop(processor)
RunTasks_release ==
    /\ IdleAt("L67")
    /\ proc_borrowed' = FALSE
    /\ pc' = "L70"
    /\ UNCHANGED <<current, idle_task_cx, tcbVars, extVars, discarded, cpu,
                   task, k, spc, aborted, last>>

\* RunTasks_switch with the idle flow saved somewhere else than the idle
\* slot of the Processor
RunTasks_switch_unsaved ==
    /\ IdleAt("L70")
    /\ cpu' = k
    /\ pc' = "switched"
    /\ UNCHANGED <<procVars, tcbVars, extVars, discarded, task, k, spc,
                   aborted, last>>

\* line 70: __switch(idle_task_cx_ptr, next_task_cx_ptr): the idle flow is
\* saved into the idle slot and the flow of the task fetched resumes
RunTasks_switch ==
    /\ IdleAt("L70")
    /\ idle_task_cx' = "L70"
    /\ cpu' = k
    /\ pc' = "switched"
    /\ UNCHANGED <<current, proc_borrowed, tcbVars, extVars, discarded, task,
                   k, spc, aborted, last>>

\* the handles of task t that are alive outside the idle flow's locals; an
\* exited task is kept by the task-lifecycle collaborator until it is reaped
HandleElsewhere(t) ==
    \/ current = t
    \/ t \in held
    \/ \E i \in 1..Len(ready_queue) : ready_queue[i] = t
    \/ task_status[t] = "Zombie"

\* RunTasks_loop_end of a run_tasks that dispatches once and returns
RunTasks_loop_end_returning ==
    /\ IdleAt("L73")
    /\ k' = NoTask
    /\ pc' = "returned"
    /\ UNCHANGED <<procVars, tcbVars, extVars, discarded, cpu, task, spc,
                   aborted, last>>

\* lines 73-74: the switch has returned; k goes out of scope
RunTasks_loop_end ==
    /\ IdleAt("L73")
    /\ discarded' = IF HandleElsewhere(k) THEN discarded
                    ELSE discarded \cup {k}
    /\ k' = NoTask
    /\ pc' = "L55"
    /\ UNCHANGED <<procVars, tcbVars, extVars, cpu, task, spc, aborted, last>>

run_tasks ==
    \/ RunTasks_acquire
    \/ RunTasks_fetch_some
    \/ RunTasks_fetch_none
    \/ RunTasks_none_release
    \/ RunTasks_lock
    \/ RunTasks_set_running
    \/ RunTasks_unlock
    \/ RunTasks_store
    \/ RunTasks_release
    \/ RunTasks_switch
    \/ RunTasks_loop_end

\* -------------------------------------------------------------- schedule
TaskRuns == aborted = "no" /\ cpu \in Tasks /\ spc = "none"
SchedAt(l) == aborted = "no" /\ cpu \in Tasks /\ spc = l

\* line 104: PROCESSOR.exclusive_access(), in the flow of the running task
Schedule_acquire ==
    /\ TaskRuns
    /\ IF proc_borrowed
       THEN /\ aborted' = "PROCESSOR already borrowed"
            /\ UNCHANGED <<proc_borrowed, spc>>
       ELSE /\ proc_borrowed' = TRUE
            /\ spc' = "L105"
            /\ UNCHANGED aborted
    /\ last' = Call("schedule", <<>>, <<>>)
    /\ UNCHANGED <<current, idle_task_cx, tcbVars, extVars, discarded, cpu,
                   idleVars>>

\* Schedule_release with drop(processor) left out
Schedule_release_skipped ==
    /\ SchedAt("L105")
    /\ spc' = "L108"
    /\ UNCHANGED <<procVars, tcbVars, extVars, discarded, cpu, idleVars,
                   aborted, last>>

\* lines 105-106: get_idle_task_cx_ptr(); drop(processor)
Schedule_release ==
    /\ SchedAt("L105")
    /\ proc_borrowed' = FALSE
    /\ spc' = "L108"
    /\ UNCHANGED <<current, idle_task_cx, tcbVars, extVars, discarded, cpu,
                   idleVars, aborted, last>>

\* where the idle flow continues when it is resumed from the idle slot:
\* behind the switch that saved it
ResumeIdle(cx) == IF cx = "L70" THEN "L73" ELSE "zero"

\* Schedule_switch that takes the caller out of Processor.current on its way
Schedule_switch_clearing ==
    /\ SchedAt("L108")
    /\ current' = NoTask
    /\ cpu' = IdleFlow
    /\ pc' = ResumeIdle(idle_task_cx)
    /\ spc' = "none"
    /\ UNCHANGED <<idle_task_cx, proc_borrowed, tcbVars, extVars, discarded,
                   task, k, aborted, last>>

\* Schedule_switch that marks the caller Ready before it switches
Schedule_switch_marking_ready ==
    /\ SchedAt("L108")
    /\ task_status' = [task_status EXCEPT ![cpu] = "Ready"]
    /\ cpu' = IdleFlow
    /\ pc' = ResumeIdle(idle_task_cx)
    /\ spc' = "none"
    /\ UNCHANGED <<procVars, inner_borrowed, syscall_times, first_time,
                   extVars, discarded, task, k, aborted, last>>

\* line 108: __switch(switched_task_cx_ptr, idle_task_cx_ptr): the caller's
\* flow is saved into the slot it passed and the idle flow resumes from the
\* idle slot
Schedule_switch ==
    /\ SchedAt("L108")
    /\ cpu' = IdleFlow
    /\ pc' = ResumeIdle(idle_task_cx)
    /\ spc' = "none"
    /\ UNCHANGED <<procVars, tcbVars, extVars, discarded, task, k, aborted,
                   last>>

schedule == Schedule_acquire \/ Schedule_release \/ Schedule_switch

\* ------------------------------------------------------------- accessors
\* an accessor's call ends the kernel with this panic, the state untouched
Abort(o, a, why) ==
    /\ aborted' = why
    /\ last' = Panic(o, a)
    /\ UNCHANGED <<procVars, tcbVars, extVars, discarded, cpu, idleVars, spc>>

\* lines 78-80
take_current_task ==
    /\ TaskRuns
    /\ IF proc_borrowed
       THEN Abort("take_current_task", <<>>, "PROCESSOR already borrowed")
       ELSE LET r == take_current(current) IN
            /\ current' = r.current
            /\ held' = IF r.ret = NoTask THEN held ELSE held \cup {r.ret}
            /\ last' = Call("take_current_task", <<>>, r.ret)
            /\ UNCHANGED <<idle_task_cx, proc_borrowed, tcbVars, ready_queue,
                           now, adds, discarded, cpu, idleVars, spc, aborted>>

\* lines 83-85
current_task ==
    /\ TaskRuns
    /\ IF proc_borrowed
       THEN Abort("current_task", <<>>, "PROCESSOR already borrowed")
       ELSE LET r == Processor_current(current) IN
            /\ current' = r.current
            /\ last' = Call("current_task", <<>>, r.ret)
            /\ UNCHANGED <<idle_task_cx, proc_borrowed, tcbVars, extVars,
                           discarded, cpu, idleVars, spc, aborted>>

\* `let task = current_task().unwrap(); task.inner_exclusive_access()`:
\* the panic it ends in, or "no"
UnwrapCurrent ==
    IF proc_borrowed THEN "PROCESSOR already borrowed"
    ELSE IF Processor_current(current).ret = NoTask THEN "unwrap on None"
    ELSE IF inner_borrowed[Processor_current(current).ret]
         THEN "inner already borrowed"
    ELSE "no"

\* a call that reads the current task and returns r, changing nothing
ReadCurrent(o, a, r) ==
    /\ TaskRuns
    /\ IF UnwrapCurrent # "no"
       THEN Abort(o, a, UnwrapCurrent)
       ELSE /\ last' = Call(o, a, r)
            /\ UNCHANGED <<procVars, tcbVars, extVars, discarded, cpu,
                           idleVars, spc, aborted>>

\* lines 88-92: the token of the current task's address space
current_user_token ==
    ReadCurrent("current_user_token", <<>>, <<"token", current>>)

\* lines 95-100: the trap context of the current task
current_trap_cx ==
    ReadCurrent("current_trap_cx", <<>>, <<"trap_cx", current>>)

\* get_current_task_status that reads the status of the task in the slot
get_current_task_status_reading ==
    ReadCurrent("get_current_task_status", <<>>,
                IF current = NoTask THEN "None" ELSE task_status[current])

\* lines 112-114
get_current_task_status ==
    /\ TaskRuns
    /\ last' = Call("get_current_task_status", <<>>, "Running")
    /\ UNCHANGED <<procVars, tcbVars, extVars, discarded, cpu, idleVars, spc,
                   aborted>>

\* usize subtraction: when overflow is set the machine word is val + 2^64
usize_sub(a, b) == [overflow |-> a < b, val |-> a - b]

\* costed_time that forgets the task's epoch
costed_time_since_boot(n, f) == usize_sub(n, 0)

\* lines 118-123: costs = now - first_time
costed_time(n, f) == usize_sub(n, f)

\* lines 116-127; an overflowing subtraction panics or wraps, as built
get_current_task_costed_time ==
    /\ TaskRuns
    /\ \E overflow_checks \in BOOLEAN :
          IF UnwrapCurrent # "no"
          THEN Abort("get_current_task_costed_time", <<>>, UnwrapCurrent)
          ELSE LET r == costed_time(now, first_time[current]) IN
               IF r.overflow /\ overflow_checks
               THEN Abort("get_current_task_costed_time", <<>>, "overflow")
               ELSE /\ last' = Call("get_current_task_costed_time", <<>>, r)
                    /\ UNCHANGED <<procVars, tcbVars, extVars, discarded, cpu,
                                   idleVars, spc, aborted>>

\* u32 `+= 1`
u32_add_one(v) ==
    [overflow |-> v = U32_MAX,
     val |-> IF v.lo < LIMB - 1 THEN U32(v.hi, v.lo + 1)
             ELSE IF v.hi < LIMB - 1 THEN U32(v.hi + 1, 0)
             ELSE U32_ZERO]

\* add_one that bumps the entry after call_id as well
add_one_spilling(st, call_id) ==
    [i \in DOMAIN st |->
        IF i \in {call_id, call_id + 1} THEN u32_add_one(st[i]).val ELSE st[i]]

\* line 132: syscall_times[call_id] += 1 on the vector st
add_one(st, call_id) == [st EXCEPT ![call_id] = u32_add_one(st[call_id]).val]

\* lines 129-134; an overflowing increment panics or wraps, as built
add_one_to_current_task ==
    /\ TaskRuns
    /\ adds < MaxAdds
    /\ \E call_id \in CallIds, overflow_checks \in BOOLEAN :
          IF UnwrapCurrent # "no"
          THEN Abort("add_one_to_current_task", <<call_id>>, UnwrapCurrent)
          ELSE IF call_id >= MAX_SYSCALL_NUM
          THEN Abort("add_one_to_current_task", <<call_id>>,
                     "index_out_of_bounds")
          ELSE IF u32_add_one(syscall_times[current][call_id]).overflow
                  /\ overflow_checks
          THEN Abort("add_one_to_current_task", <<call_id>>, "overflow")
          ELSE /\ syscall_times' = [syscall_times EXCEPT ![current] =
                                       add_one(syscall_times[current], call_id)]
               /\ adds' = adds + 1
               /\ last' = Call("add_one_to_current_task", <<call_id>>, <<>>)
               /\ UNCHANGED <<procVars, inner_borrowed, task_status,
                              first_time, ready_queue, held, now, discarded,
                              cpu, idleVars, spc, aborted>>

\* lines 136-140: a copy of the whole vector
get_current_task_syscall_times ==
    ReadCurrent("get_current_task_syscall_times", <<>>,
                IF current = NoTask THEN <<>> ELSE syscall_times[current])

\* the status codes the address-space component answers with
StatusCodes == {0, -1}

\* a return value that hides a failure of the address space
memory_set_ret_clamped(code) == IF code < 0 THEN 0 ELSE code

\* lines 145 and 152: the call of the address space is the tail expression
\* of the function, so its answer is the return value
memory_set_ret(code) == code

\* lines 142-146: memory_set.mmap answers with code (recorded with the call)
mmap ==
    \E code \in StatusCodes :
        ReadCurrent("mmap", <<"memory_set", code>>, memory_set_ret(code))

\* lines 148-153: memory_set.munmap answers with code (recorded with the
\* call)
munmap ==
    \E code \in StatusCodes :
        ReadCurrent("munmap", <<"memory_set", code>>, memory_set_ret(code))

accessors ==
    \/ take_current_task
    \/ current_task
    \/ current_user_token
    \/ current_trap_cx
    \/ get_current_task_status
    \/ get_current_task_costed_time
    \/ add_one_to_current_task
    \/ get_current_task_syscall_times
    \/ mmap
    \/ munmap

\* ----------------------------------------------------------- environment
\* The caller of take_current_task that suspends the task: it marks the
\* handle it holds Ready and gives it back to the ready queue (add_task).
Ext_requeue ==
    /\ TaskRuns
    /\ cpu \in held
    /\ ~inner_borrowed[cpu]
    /\ task_status' = [task_status EXCEPT ![cpu] = "Ready"]
    /\ ready_queue' = Append(ready_queue, cpu)
    /\ held' = held \ {cpu}
    /\ last' = NoCall
    /\ UNCHANGED <<procVars, inner_borrowed, syscall_times, first_time, now,
                   adds, discarded, cpu, idleVars, spc, aborted>>

\* The caller of take_current_task that ends the task: it marks the handle
\* it holds Zombie and lets it go.
Ext_exit ==
    /\ TaskRuns
    /\ cpu \in held
    /\ ~inner_borrowed[cpu]
    /\ task_status' = [task_status EXCEPT ![cpu] = "Zombie"]
    /\ held' = held \ {cpu}
    /\ last' = NoCall
    /\ UNCHANGED <<procVars, inner_borrowed, syscall_times, first_time,
                   ready_queue, now, adds, discarded, cpu, idleVars, spc,
                   aborted>>

\* the timer advances
Tick ==
    /\ aborted = "no"
    /\ now < BootTime + MaxTicks
    /\ now' = now + 1
    /\ UNCHANGED <<procVars, tcbVars, ready_queue, held, adds, discarded, cpu,
                   idleVars, spc, aborted, last>>

Next ==
    \/ run_tasks
    \/ schedule
    \/ accessors
    \/ Ext_requeue
    \/ Ext_exit
    \/ Tick

Spec == Init /\ [][Next]_vars

\* The flow that owns the CPU keeps executing: the dispatch loop takes its
\* next step whenever it can, and a schedule call that was entered runs to
\* its switch.  Whether a task calls schedule at all is up to the task.
LiveSpec ==
    /\ Spec
    /\ WF_vars(run_tasks)
    /\ WF_vars(Schedule_release \/ Schedule_switch)

\* ================================================================ claims
\* the dispatch window of task t: its status is set (line 62) and its handle
\* is not yet stored into Processor.current (line 65)
InWindow(t) == cpu = IdleFlow /\ task = t /\ pc \in {"L63", "L65"}

\* C1: in every reachable state Processor.current holds at most one task
\* handle, and whenever it holds one, that task's status is Running.
C1_CurrentIsRunning ==
    /\ current \in Tasks \cup {NoTask}
    /\ current # NoTask => task_status[current] = "Running"

\* C1 witness: the dispatch loop has been resumed by a yield of a task that
\* is still in the slot.
C1_Witness ==
    /\ cpu = IdleFlow /\ pc = "L73"
    /\ current \in Tasks /\ task_status[current] = "Running"

\* C2 as claimed: a task whose status is Running is the task in
\* Processor.current or is in the dispatch window, and no two distinct tasks
\* are Running together.
C2_Claimed ==
    /\ \A t \in Tasks :
          task_status[t] = "Running" => (current = t \/ InWindow(t))
    /\ \A t, u \in Tasks :
          task_status[t] = "Running" /\ task_status[u] = "Running" => t = u

\* C2 amended: a task whose status is Running is the task in
\* Processor.current, or is in the dispatch window, or its handle has left
\* the slot without its status being changed: taken out by take_current_task
\* and still held by that caller, or dropped from the slot by a dispatch made
\* while the slot was occupied.
C2_RunningIsAccountedFor ==
    \A t \in Tasks :
        task_status[t] = "Running" =>
            \/ current = t
            \/ InWindow(t)
            \/ t \in held
            \/ t \in discarded

\* C2 witness: two tasks are Running together, one in the slot and one taken
\* out of it and still held.
C2_Witness ==
    \E t, u \in Tasks :
        /\ t # u
        /\ task_status[t] = "Running" /\ current = t
        /\ task_status[u] = "Running" /\ u \in held

C4_NoGuardAcrossSwitch ==
    (IdleAt("L70") \/ SchedAt("L108")) =>
        /\ ~proc_borrowed
        /\ \A t \in Tasks : ~inner_borrowed[t]

\* C4 witness: a task that was switched into is about to switch back.
C4_Witness == SchedAt("L108") /\ idle_task_cx = "L70" /\ current = cpu

\* C5: the Processor guard is never requested while it is held: no call
\* ends in the re-borrow panic, and the guard is free whenever a public
\* function is entered (a task's flow between calls, the dispatch loop at
\* the top of an iteration).
C5_GuardNeverReentered ==
    /\ aborted # "PROCESSOR already borrowed"
    /\ (cpu \in Tasks /\ spc = "none") => ~proc_borrowed
    /\ (cpu = IdleFlow /\ pc = "L55") => ~proc_borrowed

\* C5 witness: the dispatch loop holds the guard again after a task it
\* dispatched has called accessors and yielded.
C5_Witness ==
    /\ cpu = IdleFlow /\ pc = "L56" /\ proc_borrowed
    /\ idle_task_cx = "L70"
    /\ aborted = "no"

\* everything but the record of the last call and the panic flag
stateVars == <<current, idle_task_cx, proc_borrowed, inner_borrowed,
               task_status, syscall_times, first_time, ready_queue, held,
               discarded, now, cpu, pc, task, k, spc>>

\* C6: take_current_task returns the handle in the slot (nothing when the
\* slot is empty) and leaves the slot empty; a current_task call returns
\* what the slot holds, so nothing after a take; and the slot, once empty,
\* is filled again only by the dispatch loop's store (line 65).
C6_TakeEmptiesSlot ==
    /\ [][take_current_task =>
             /\ last'.ok /\ last'.ret = current
             /\ current' = NoTask
             /\ held' = (IF current = NoTask THEN held
                         ELSE held \cup {current})]_vars
    /\ [][(current_task /\ current = NoTask) =>
             (last'.ok /\ last'.ret = NoTask /\ current' = NoTask)]_vars
    /\ [][(current = NoTask /\ current' # NoTask) => RunTasks_store]_vars

\* C6 witness: take_current_task was called on the slot it had emptied
\* before and returned nothing.
C6_Witness ==
    /\ last = Call("take_current_task", <<>>, NoTask)
    /\ current = NoTask
    /\ cpu \in held

\* C7: current_task returns the task in the slot (nothing when it is empty)
\* and changes nothing: the slot, the idle context, every task's status,
\* counters and timestamp stay as they were; a second call right after
\* returns the same task.
C7_CurrentTaskIsPure ==
    /\ [][current_task =>
             /\ last'.ok /\ last'.ret = current
             /\ UNCHANGED stateVars /\ UNCHANGED <<adds, aborted>>]_vars
    /\ [][(current_task /\ last.op = "current_task") =>
             last'.ret = last.ret]_vars

\* C7 witness: current_task returned the running task, which is still in
\* the slot.
C7_Witness ==
    /\ last.op = "current_task" /\ last.ok
    /\ last.ret \in Tasks /\ current = last.ret /\ cpu = last.ret

\* a call of an accessor that works on the current task (take_current_task
\* and current_task answer with an Option instead)
CurrentTaskAccessorCall ==
    \/ current_user_token
    \/ current_trap_cx
    \/ get_current_task_status
    \/ get_current_task_costed_time
    \/ add_one_to_current_task
    \/ get_current_task_syscall_times
    \/ mmap
    \/ munmap

\* C8: an accessor of the current task that is called while
\* Processor.current is empty aborts instead of returning a value, and the
\* aborted call changes no state.
C8_Claimed ==
    [][(CurrentTaskAccessorCall /\ current = NoTask) =>
          /\ aborted' # "no" /\ ~last'.ok
          /\ UNCHANGED stateVars]_vars

\* b is a + 1 as 32-bit numbers, without wrapping
U32_IsSucc(a, b) ==
    \/ a.lo < LIMB - 1 /\ b = U32(a.hi, a.lo + 1)
    \/ a.lo = LIMB - 1 /\ a.hi < LIMB - 1 /\ b = U32(a.hi + 1, 0)

\* a step that is add_one_to_current_task(i) with a current task and a
\* valid i
AddOneCall(i) ==
    /\ add_one_to_current_task
    /\ current \in Tasks
    /\ last'.op = "add_one_to_current_task" /\ last'.arg = <<i>>

\* every counter but entry i of the current task keeps its value, as do the
\* slot and the statuses
AddOneFrame(i) ==
    /\ \A t \in Tasks : \A j \in SyscallIds :
          (t # current \/ j # i) => syscall_times'[t][j] = syscall_times[t][j]
    /\ UNCHANGED <<current, task_status>>

C10_CostedTimeExact ==
    [][(get_current_task_costed_time /\ current \in Tasks) =>
          /\ last'.ok
          /\ ~last'.ret.overflow
          /\ last'.ret.val = now - first_time[current]
          /\ last'.ret.val >= 0
          /\ UNCHANGED stateVars /\ UNCHANGED <<adds, aborted>>]_vars

\* C10 witness: the call returned a positive time for a task created after
\* boot time 0.
C10_Witness ==
    /\ last.op = "get_current_task_costed_time" /\ last.ok
    /\ current \in Tasks /\ first_time[current] > 0
    /\ last.ret.val = now - first_time[current] /\ last.ret.val > 0

\* the order in which the dispatch loop passes its lines
LoopOrder ==
    {<<"L55", "L56">>, <<"L56", "L59">>, <<"L56", "L74">>, <<"L74", "L55">>,
     <<"L59", "L62">>, <<"L62", "L63">>, <<"L63", "L65">>, <<"L65", "L67">>,
     <<"L67", "L70">>, <<"L70", "switched">>, <<"switched", "L73">>,
     <<"L73", "L55">>}

\* C11: a schedule call of the running task hands control to the dispatch
\* loop right behind the switch (line 70) that dispatched that very task;
\* the loop's next step ends the iteration and the one after it starts a
\* fresh iteration by acquiring the Processor guard; control comes back to
\* the dispatch loop only through schedule's switch, and leaves it only
\* through the loop's switch, so the two kinds of switch alternate: a task's
\* flow owns the CPU exactly while the loop is suspended in its switch.
C11_YieldResumesBehindDispatch ==
    /\ [][Schedule_switch =>
             /\ cpu' = IdleFlow /\ pc = "switched" /\ pc' = "L73"
             /\ k' = cpu]_vars
    /\ [][(pc' # pc) => <<pc, pc'>> \in LoopOrder]_vars
    /\ [][(cpu = IdleFlow /\ pc = "L55" /\ pc' # pc) =>
             (RunTasks_acquire /\ proc_borrowed' /\ pc' = "L56")]_vars
    /\ [][(cpu \in Tasks /\ cpu' # cpu) => Schedule_switch]_vars
    /\ [][(cpu = IdleFlow /\ cpu' # cpu) => RunTasks_switch]_vars
    /\ [](cpu \in Tasks <=> pc = "switched")

\* C11 witness: the fresh iteration that followed a yield has acquired the
\* Processor guard and fetched a task.
C11_Witness ==
    /\ IdleAt("L59") /\ idle_task_cx = "L70"
    /\ proc_borrowed /\ k = NoTask /\ task \in Tasks

\* C12: no step of schedule changes Processor.current or the status of any
\* task; when the dispatch loop is resumed by a yield, the slot holds what
\* it held at the switch: the yielding task, or nothing when that task had
\* called take_current_task; and the idle context schedule resumes from is
\* the one slot of the Processor into which the dispatching switch (line 70)
\* saved the loop, untouched in between.
C12_ScheduleKeepsCurrent ==
    /\ [][schedule => UNCHANGED <<current, task_status, idle_task_cx>>]_vars
    /\ [][Schedule_switch =>
             /\ current' = current
             /\ current \in {cpu, NoTask}
             /\ idle_task_cx = "L70"
             /\ pc' = ResumeIdle(idle_task_cx)]_vars
    /\ [][(cpu \in Tasks /\ idle_task_cx' # idle_task_cx) => FALSE]_vars
    /\ [](IdleAt("L73") => current \in {k, NoTask})

\* C12 witness: the dispatch loop was resumed by a yield and the slot still
\* holds the task that yielded without a take_current_task.
C12_Witness ==
    /\ IdleAt("L73") /\ idle_task_cx = "L70"
    /\ current = k /\ k \in Tasks /\ k \notin held
    /\ ~proc_borrowed

\* C13: with a current task, mmap and munmap return exactly the status code
\* the address space of the current task answered with; a negative code is
\* returned like any other, without an abort; the call changes neither
\* Processor.current nor a status nor a syscall counter and leaves the
\* Processor guard and every task guard released.
C13_MapReturnsStatus ==
    [][((mmap \/ munmap) /\ current \in Tasks) =>
          /\ last'.ok /\ aborted' = "no"
          /\ last'.op \in {"mmap", "munmap"}
          /\ last'.ret = last'.arg[2]
          /\ UNCHANGED <<current, task_status, syscall_times>>
          /\ ~proc_borrowed'
          /\ \A t \in Tasks : ~inner_borrowed'[t]]_vars

\* C13 witness: munmap has returned the failure code of the address space
\* to the running task, which runs on.
C13_Witness ==
    /\ last.op = "munmap" /\ last.ok
    /\ last.arg = <<"memory_set", -1>> /\ last.ret = -1
    /\ TaskRuns /\ current = cpu
    /\ ~proc_borrowed /\ ~inner_borrowed[cpu]

\* task t waits in the ready queue
InReadyQueue(t) == \E i \in 1..Len(ready_queue) : ready_queue[i] = t

\* every task that is dispatched calls schedule in the end
EveryTaskYields == [](TaskRuns => <>(spc # "none"))

U32_Leq(a, b) == a.hi < b.hi \/ (a.hi = b.hi /\ a.lo <= b.lo)

\* C15 as claimed: no step lowers an entry of any task's syscall counters,
\* and get_current_task_syscall_times returns a copy equal to the whole
\* counter vector of the current task, so that the vectors successive calls
\* return for one task are pointwise non-decreasing.
C15_Claimed ==
    /\ [][\A t \in Tasks : \A i \in SyscallIds :
             U32_Leq(syscall_times[t][i], syscall_times'[t][i])]_vars
    /\ [][(get_current_task_syscall_times /\ current \in Tasks) =>
             /\ last'.ok /\ last'.ret = syscall_times[current]
             /\ syscall_times' = syscall_times]_vars

\* C16: the dispatch loop's line 62 is the only place where this core
\* changes a status, and the change is Ready -> Running: the task it sets
\* to Running had status Ready right before; schedule, take_current_task,
\* current_task, the accounting accessors, mmap and munmap change no status.
\* (The holder of a handle taken out of the slot is not part of this core.)
C16_OnlyReadyToRunning ==
    /\ [][RunTasks_set_running =>
             /\ task_status[task] = "Ready"
             /\ task_status' = [task_status EXCEPT ![task] = "Running"]]_vars
    /\ [][(task_status' # task_status) =>
             (RunTasks_set_running \/ Ext_requeue \/ Ext_exit)]_vars
    /\ [][(schedule \/ accessors) => task_status' = task_status]_vars

\* C16 witness: a task that ran before and was put back as Ready has just
\* been set to Running again by the dispatch loop.
C16_Witness ==
    /\ IdleAt("L63") /\ idle_task_cx = "L70"
    /\ task \in Tasks /\ task_status[task] = "Running"
    /\ first_time[task] = 0 /\ ready_queue # <<>> /\ Head(ready_queue) = 2
    /\ inner_borrowed[task]

\* what holds of the iteration that dispatches task t when the loop is about
\* to execute line l
DispatchStage(l, t) ==
    CASE l = "L59" -> proc_borrowed /\ ~inner_borrowed[t]
      [] l = "L62" -> proc_borrowed /\ inner_borrowed[t]
      [] l = "L63" -> /\ proc_borrowed /\ inner_borrowed[t]
                      /\ task_status[t] = "Running"
      [] l = "L65" -> /\ proc_borrowed /\ ~inner_borrowed[t]
                      /\ task_status[t] = "Running" /\ current # t
      [] l = "L67" -> /\ proc_borrowed /\ ~inner_borrowed[t]
                      /\ task_status[t] = "Running" /\ current = t
      [] l = "L70" -> /\ ~proc_borrowed /\ ~inner_borrowed[t]
                      /\ task_status[t] = "Running" /\ current = t
      [] OTHER -> TRUE

\* C17: an iteration that fetches task T acquires the Processor guard,
\* fetches T, acquires T's guard, sets T's status to Running, releases T's
\* guard, stores T into Processor.current, releases the Processor guard and
\* only then switches, in this order; so at the switch the slot holds T and
\* T's status is Running, and a current_task call T makes before any other
\* call returns T.
C17_DispatchOrder ==
    /\ [](cpu = IdleFlow /\ pc = "L56" => proc_borrowed)
    /\ [](cpu = IdleFlow /\ pc \in {"L59", "L62", "L63", "L65"} =>
             task \in Tasks /\ DispatchStage(pc, task))
    /\ [](cpu = IdleFlow /\ pc \in {"L67", "L70"} =>
             k \in Tasks /\ DispatchStage(pc, k))
    /\ [][(cpu = IdleFlow /\ pc \in {"L55", "L59", "L62", "L63", "L65",
                                       "L67", "L70"} /\ pc' # pc) =>
             \E n \in {<<"L55", "L56">>, <<"L59", "L62">>, <<"L62", "L63">>,
                       <<"L63", "L65">>, <<"L65", "L67">>, <<"L67", "L70">>,
                       <<"L70", "switched">>} : <<pc, pc'>> = n]_vars
    /\ [][RunTasks_switch =>
             /\ cpu' = k /\ current' = k
             /\ task_status'[k] = "Running"]_vars
    /\ [][(current_task /\ last = NoCall /\ task_status[cpu] = "Running") =>
             (last'.ok /\ last'.ret = cpu)]_vars

\* C17 witness: the task just dispatched has made current_task its first
\* call and got itself.
C17_Witness ==
    /\ TaskRuns /\ idle_task_cx = "L70" /\ pc = "switched"
    /\ last = Call("current_task", <<>>, cpu)
    /\ current = cpu /\ k = cpu /\ task_status[cpu] = "Running"
    /\ cpu \notin held /\ adds = 0

\* C18 as claimed: this core never discards a task handle: a handle the
\* dispatch loop has popped from the ready queue is from then on in the
\* loop's hands on its way to the slot, in Processor.current, or moved out
\* to a caller by take_current_task (who holds it, has queued it again or
\* has passed it to the lifecycle collaborator); no step drops a handle,
\* a dispatch made while Processor.current is occupied included.
C18_Claimed ==
    /\ discarded = {}
    /\ \A t \in Tasks :
          \/ InReadyQueue(t)
          \/ (cpu = IdleFlow /\ task = t)
          \/ current = t
          \/ t \in held
          \/ task_status[t] = "Zombie"

\* C19: an iteration of the dispatch loop whose fetch returns no task issues
\* no switch (the loop keeps the CPU), changes neither Processor.current
\* nor the idle context nor any status, and has released the Processor
\* guard when the next iteration acquires it.
C19_EmptyIterationIsIdle ==
    /\ [][RunTasks_fetch_none =>
             /\ ready_queue = <<>> /\ proc_borrowed /\ pc' = "L74"
             /\ UNCHANGED <<current, idle_task_cx, task_status, cpu,
                            proc_borrowed>>]_vars
    /\ [][(cpu = IdleFlow /\ pc = "L74" /\ pc' # pc) =>
             /\ pc' = "L55" /\ ~proc_borrowed'
             /\ UNCHANGED <<current, idle_task_cx, task_status, cpu>>]_vars
    /\ [](cpu = IdleFlow /\ pc = "L55" => ~proc_borrowed)
    /\ [][(RunTasks_acquire /\ ready_queue = <<>>) =>
             (aborted' = "no" /\ proc_borrowed')]_vars

\* C19 witness: the loop, resumed by a yield of the task that is still in
\* the slot, has found the ready queue empty and is about to release the
\* guard.
C19_Witness ==
    /\ IdleAt("L74") /\ ready_queue = <<>> /\ proc_borrowed
    /\ idle_task_cx = "L70" /\ k = NoTask /\ task = NoTask
    /\ current \in Tasks /\ task_status[current] = "Running"

\* C20: get_current_task_status returns Running in every state in which it
\* is called, whatever the status of the task in Processor.current and also
\* when the slot is empty; it takes no guard, never aborts and changes no
\* state.
C20_StatusIsConstant ==
    [][get_current_task_status =>
          /\ last' = Call("get_current_task_status", <<>>, "Running")
          /\ aborted' = "no"
          /\ UNCHANGED stateVars /\ UNCHANGED adds]_vars

\* C20 witness: the call answered Running to a task that had emptied the
\* slot and whose own status had been set to Ready by then.
C20_Witness ==
    /\ last = Call("get_current_task_status", <<>>, "Running")
    /\ TaskRuns /\ current = NoTask
    /\ task_status[cpu] = "Ready" /\ ~proc_borrowed
====
